---- MODULE Spec2Model ----
(***************************************************************************)
(* revview: page-by-page comparison of two paged documents.                *)
(*                                                                         *)
(* Two state machines are modelled:                                        *)
(*   Spec      the main window: two PageTurning cursors, the               *)
(*             SyncPageTurning control, the file loaders and the view      *)
(*             (src/revview/main/controller.py);                           *)
(*   SpecDiff  DifferenceDetection.difference applied to a pair of pages   *)
(*             (src/revview/main/model.py).                                *)
(***************************************************************************)
EXTENDS Integers, Sequences, FiniteSets, TLC

(***************************************************************************)
(* Bounds of the model.                                                    *)
(***************************************************************************)
\* largest page count of a document that is loaded
MaxTotal == 5
\* largest number of consecutive synchronized go_next calls that is counted
MaxRun == 4

\* the pages handed to the engine: the width of the smallest ones, and the
\* extent of the ones wide (or tall) enough for the background margin to act
TinyW == 2
WideW == 46
WideH == 5
\* the side of the square pages on which boxes can surround another box
FrameW == 20

VARIABLES
    img,          \* PageTurning.img of each side: NoImg or the source (its total)
    curpage,      \* PageTurning.curpage of each side
    page_le,      \* text of the page-number QLineEdit of each side
    total_lbl,    \* text of the total-pages QLabel of each side
    fp_le,        \* file shown in the path QLineEdit of each side
    btn_enabled,  \* PageTurning.enable()/disable() of each side
    sync_enabled, \* SyncPageTurning.enable()/disable()
    view_page,    \* DifferenceView.page_l / page_r
    diffview,     \* DifferenceView.pixmap_l / pixmap_r and the pairs handed
                  \* to DifferenceDetection.difference
    crashed,      \* an exception left a Qt handler: PyQt5 aborts the process
    last,         \* the handler that ran last: its name, inputs and effects
    run,          \* synchronized go_next calls in a row since both sides were at page 1
    page_l_data,  \* the page handed to difference() as src1
    page_r_data,  \* the page handed to difference() as src2
    detection_settings, \* DifferenceDetection.settings
    out,          \* how the call of difference() ended and what it computed
    loader,       \* BaseImage.load_pages: the document, the pages read so far,
                  \* the arguments the callback was given
    settings_file,   \* the file _settings_file
    settings_obj,    \* the Settings object the application holds
    settings_dialog  \* SettingsDialogController.window and the windows shown

navvars == <<img, curpage, page_le, total_lbl, fp_le, btn_enabled,
             sync_enabled, view_page, diffview, crashed, last, run>>

diffvars == <<page_l_data, page_r_data, detection_settings, out>>

setvars == <<settings_file, settings_obj, settings_dialog>>

Sides == {"L", "R"}
Other(s) == IF s = "L" THEN "R" ELSE "L"

\* PageTurning.img before load_image: None
NoImg == [attached |-> FALSE, total |-> 0]
\* BaseImage after open and load_pages: the source with its page count
Image(total) == [attached |-> TRUE, total |-> total]
\* DifferenceView.page_l / page_r before the first update: None
NoPage == [src |-> 0, no |-> 0]
\* no file shown yet
NoFile == [shown |-> FALSE, total |-> 0]
\* the path of a document, told apart by its page count
File(total) == [shown |-> TRUE, total |-> total]

(***************************************************************************)
(* Text of a QLineEdit / QLabel: a sequence of characters.  A character is *)
(* a digit 0..9; str() and int() are Python's decimal conversions.         *)
(***************************************************************************)
Digits == 0..9

\* str(n) for 0 <= n <= 99
Str(n) == IF n < 10 THEN <<n>> ELSE <<n \div 10, n % 10>>

\* str.isdecimal(): non-empty and every character a decimal digit
IsDecimal(t) == Len(t) > 0 /\ \A i \in 1..Len(t) : t[i] \in Digits

\* int(t) for a decimal text t
RECURSIVE IntOf(_)
IntOf(t) == IF Len(t) = 0 THEN 0
            ELSE 10 * IntOf(SubSeq(t, 1, Len(t) - 1)) + t[Len(t)]

\* what the user can type into the page-number field (QIntValidator(bottom=1)
\* lets digits through; "0" and an empty field are intermediate input)
TypedTexts == {<<>>, <<0>>, <<0, 2>>, Str(MaxTotal + 1)}

(***************************************************************************)
(* BaseImage.get_page: self.pages[p - 1], a Python list index: valid for   *)
(* -total <= p - 1 <= total - 1 (negative indices count from the end),     *)
(* IndexError otherwise.                                                   *)
(***************************************************************************)
GetPageRaises(total, p) == ~ ((p - 1) \in (0 - total)..(total - 1))

\* a slip: the page list is indexed from 0 (self.pages[p])
GetPageZeroBased(total, p) == [src |-> total, no |-> p + 1]

GetPage(total, p) ==
    [src |-> total, no |-> IF p - 1 >= 0 THEN p ELSE total + p]

Min(a, b) == IF a < b THEN a ELSE b
Max(a, b) == IF a > b THEN a ELSE b

\* a slip: clamps to 0..total-1
WithinPageRangeOffByOne(p, total) == Min(Max(p, 0), total - 1)

\* PageTurning._within_page_range
WithinPageRange(p, total) == Min(Max(p, 1), total)

\* PageTurning.is_loaded
IsLoaded(s) == img[s] # NoImg

NavOps == {"go_first", "go_last", "go_prev", "go_next", "go_page_no"}

\* a slip: go_next steps by two
TargetSkipsAPage(op, s, p) ==
    CASE op = "go_first"   -> 1
      [] op = "go_last"    -> img[s].total
      [] op = "go_prev"    -> WithinPageRange(curpage[s] - 1, img[s].total)
      [] op = "go_next"    -> WithinPageRange(curpage[s] + 2, img[s].total)
      [] op = "go_page_no" -> WithinPageRange(p, img[s].total)

\* the index PageTurning.go_* assigns to self.curpage
Target(op, s, p) ==
    CASE op = "go_first"   -> 1
      [] op = "go_last"    -> img[s].total
      [] op = "go_prev"    -> WithinPageRange(curpage[s] - 1, img[s].total)
      [] op = "go_next"    -> WithinPageRange(curpage[s] + 1, img[s].total)
      [] op = "go_page_no" -> WithinPageRange(p, img[s].total)

\* a slip: the guard on self.img is missing (as in an unguarded cursor)
GuardedAlways(s) == FALSE

\* PageTurning.go_*: "if self.img is None: return"
Guarded(s) == img[s] = NoImg

(***************************************************************************)
(* One call of PageTurning.go_first_page / go_last_page / go_prev_page /   *)
(* go_next_page / go_page_no on side s, as the record of its effects:      *)
(*   cur     self.curpage afterwards                                       *)
(*   le      text of page_le afterwards                                    *)
(*   emit    the pages handed to update_func, in order                     *)
(*   raised  an exception left the call                                    *)
(***************************************************************************)
Nav(op, s, p) ==
    IF Guarded(s)
    THEN [cur |-> curpage[s], le |-> page_le[s], emit |-> <<>>, raised |-> FALSE]
    ELSE LET tot == img[s].total
             c   == IF img[s] = NoImg
                    THEN (IF op = "go_first" THEN 1 ELSE curpage[s])
                    ELSE Target(op, s, p)
         IN  IF img[s] = NoImg \/ GetPageRaises(tot, c)
             THEN [cur |-> c, le |-> page_le[s], emit |-> <<>>, raised |-> TRUE]
             ELSE [cur    |-> c,
                   le     |-> IF op = "go_page_no" THEN page_le[s] ELSE Str(c),
                   emit   |-> <<GetPage(tot, c)>>,
                   raised |-> FALSE]

\* DifferenceView.update_left / update_right: the page the view holds for a side
ViewAfter(s, r) == IF Len(r.emit) > 0 THEN r.emit[Len(r.emit)] ELSE view_page[s]

NoEmit == [s \in Sides |-> <<>>]

(***************************************************************************)
(* DifferenceView.  A pixmap is told by what it was made from: the page    *)
(* itself (PagePixmap.from_ndarray(page.data)) or the output of            *)
(* difference() for that page against the page of the other side.          *)
(***************************************************************************)
\* Page.size, (width, height): the odd pages of the document of MaxTotal
\* pages are landscape, every other page is portrait
PageSize(page) ==
    IF page.src = MaxTotal /\ page.no % 2 = 1 THEN <<4, 3>> ELSE <<3, 4>>

\* DifferenceView.pixmap_l / pixmap_r before the first update: None
NoPixmap == [kind |-> "none", of |-> NoPage, against |-> NoPage]
\* PagePixmap.from_ndarray(self.page_l.data)
RawPixmap(page) == [kind |-> "page", of |-> page, against |-> NoPage]
\* PagePixmap.from_ndarray(data_l), data_l from difference(page, other)
AnnotatedPixmap(page, other) ==
    [kind |-> "annotated", of |-> page, against |-> other]

\* DifferenceView.__init__.  handed: the pairs given to difference() within
\* the handler that updated the view last; seen: whether the pair given to
\* difference() last is the pair of pages the view holds ("held"), a pair it
\* held before ("earlier"), or difference() was never called ("none")
NoView ==
    [pixmap |-> [s \in Sides |-> NoPixmap], handed |-> <<>>, seen |-> "none"]

\* a slip: the pixmaps are assigned only where difference() is called
UpdateViewKeepsAnnotation(pl, pr, pixmap) ==
    IF pr = NoPage \/ pl = NoPage
    THEN [pixmap |-> [L |-> IF pl # NoPage THEN RawPixmap(pl) ELSE pixmap["L"],
                      R |-> IF pr # NoPage THEN RawPixmap(pr) ELSE pixmap["R"]],
          handed |-> <<>>]
    ELSE IF PageSize(pl) = PageSize(pr)
         THEN [pixmap |-> [L |-> AnnotatedPixmap(pl, pr),
                           R |-> AnnotatedPixmap(pr, pl)],
               handed |-> <<[l |-> pl, r |-> pr]>>]
         ELSE [pixmap |-> pixmap, handed |-> <<>>]

(***************************************************************************)
(* DifferenceView.update_view with page_l = pl and page_r = pr: the        *)
(* pixmaps shown afterwards and the pair handed to difference(), if any.   *)
(***************************************************************************)
UpdateView(pl, pr, pixmap) ==
    LET shown == [L |-> IF pl # NoPage THEN RawPixmap(pl) ELSE pixmap["L"],
                  R |-> IF pr # NoPage THEN RawPixmap(pr) ELSE pixmap["R"]]
    IN  IF pr = NoPage \/ pl = NoPage
        THEN [pixmap |-> shown, handed |-> <<>>]
        ELSE IF PageSize(pl) = PageSize(pr)
             THEN [pixmap |-> [L |-> AnnotatedPixmap(pl, pr),
                               R |-> AnnotatedPixmap(pr, pl)],
                   handed |-> <<[l |-> pl, r |-> pr]>>]
             ELSE [pixmap |-> shown, handed |-> <<>>]

\* a slip: update_right assigns page_l
UpdateSideAlwaysLeft(s, emit, vp, dv) ==
    IF Len(emit) = 0 THEN dv
    ELSE LET page == emit[Len(emit)]
             u    == UpdateView(page, vp["R"], dv.pixmap)
         IN  [pixmap |-> u.pixmap,
              handed |-> dv.handed \o u.handed,
              seen   |-> IF Len(u.handed) > 0 THEN "held"
                         ELSE IF dv.seen = "held" /\ page # vp[s] THEN "earlier"
                         ELSE dv.seen]

\* DifferenceView.update_left / update_right for the pages emitted to side s
\* (vp: page_l / page_r before)
UpdateSide(s, emit, vp, dv) ==
    IF Len(emit) = 0 THEN dv
    ELSE LET page == emit[Len(emit)]
             u    == IF s = "L" THEN UpdateView(page, vp["R"], dv.pixmap)
                                ELSE UpdateView(vp["L"], page, dv.pixmap)
         IN  [pixmap |-> u.pixmap,
              handed |-> dv.handed \o u.handed,
              seen   |-> IF Len(u.handed) > 0 THEN "held"
                         ELSE IF dv.seen = "held" /\ page # vp[s] THEN "earlier"
                         ELSE dv.seen]

\* a handler starts: no pair was handed to difference() within it
Entering(dv) == [dv EXCEPT !.handed = <<>>]

(***************************************************************************)
(* DifferenceDetection (src/revview/main/model.py).                        *)
(*                                                                         *)
(* A page is a numpy array: its shape (<<h, w>> or <<h, w, c>>) and its    *)
(* pixels, px[<<y, x>>] the sequence of the channel values of row y,       *)
(* column x.  A point of a contour is <<x, y>>, as in OpenCV.              *)
(***************************************************************************)
Rows(a) == a.shape[1]
Cols(a) == a.shape[2]
Coords(a) == (0..(Rows(a) - 1)) \X (0..(Cols(a) - 1))

\* src.shape[-1]
LastDim(a) == a.shape[Len(a.shape)]

\* the channel count OpenCV sees: 1 for a 2-D array, else the third dimension
CvChannels(a) == IF Len(a.shape) = 2 THEN 1 ELSE a.shape[3]

\* the result of a call that may raise
Ok(v) == [raised |-> FALSE, val |-> v]
Raise(v) == [raised |-> TRUE, val |-> v]

\* a slip: only height and width are compared
ImageSameSizeIgnoresChannels(src1, src2) ==
    Rows(src1) = Rows(src2) /\ Cols(src1) = Cols(src2)

\* DifferenceDetection._image_same_size
ImageSameSize(src1, src2) == src1.shape = src2.shape

\* cv2.cvtColor(src, cv2.COLOR_GRAY2RGB): one channel replicated to three;
\* an input of another channel count is an error
CvtGray2RGB(src) ==
    IF CvChannels(src) # 1 THEN Raise(src)
    ELSE Ok([shape |-> <<Rows(src), Cols(src), 3>>,
             px    |-> [p \in Coords(src) |->
                          <<src.px[p][1], src.px[p][1], src.px[p][1]>>]])

\* DifferenceDetection._convert_to_color
ConvertToColor(src) ==
    IF LastDim(src) = 3 THEN Ok(src) ELSE CvtGray2RGB(src)

\* OpenCV's 8-bit RGB to gray: (4899 R + 9617 G + 1868 B + 8192) >> 14
GrayOf(c) == (4899 * c[1] + 9617 * c[2] + 1868 * c[3] + 8192) \div 16384

\* cv2.cvtColor(src, cv2.COLOR_RGB2GRAY): three or four channels to one;
\* an input of another channel count is an error
CvtRGB2Gray(src) ==
    IF CvChannels(src) \notin {3, 4} THEN Raise(src)
    ELSE Ok([shape |-> <<Rows(src), Cols(src)>>,
             px    |-> [p \in Coords(src) |-> <<GrayOf(src.px[p])>>]])

Abs(n) == IF n < 0 THEN 0 - n ELSE n

\* ndarray.astype(np.uint8) of an integer
AsUint8(n) == n % 256

\* cv2.threshold(diff, thresh, maxval, cv2.THRESH_BINARY) of one pixel:
\* maxval where the value is greater than thresh, else 0
Threshold(v, thresh, maxval) == IF v > thresh THEN maxval ELSE 0

\* DifferenceDetection._mask_diff_area
MaskDiffArea(src1, src2) ==
    LET gray1 == CvtRGB2Gray(src1)
        gray2 == CvtRGB2Gray(src2)
    IN  IF gray1.raised \/ gray2.raised THEN Raise(src1)
        ELSE Ok([shape |-> gray1.val.shape,
                 px |-> [p \in Coords(src1) |->
                           <<Threshold(AsUint8(Abs(gray1.val.px[p][1]
                                                   - gray2.val.px[p][1])),
                                       1, 255)>>]])

(***************************************************************************)
(* cv2.findContours(image, cv2.RETR_EXTERNAL, cv2.CHAIN_APPROX_NONE):      *)
(* the outer border of every 8-connected component of non-zero pixels      *)
(* that lies in the outer background (a component inside a hole of         *)
(* another one is not reported), each border as the chain of its points.   *)
(***************************************************************************)
Add(p, q) == <<p[1] + q[1], p[2] + q[2]>>

\* the eight neighbour offsets, clockwise on the screen from east
Dir(d) == <<<<1, 0>>, <<1, 1>>, <<0, 1>>, <<0 - 1, 1>>,
            <<0 - 1, 0>>, <<0 - 1, 0 - 1>>, <<0, 0 - 1>>, <<1, 0 - 1>>>>[d + 1]

Nbrs8(p) == {Add(p, Dir(d)) : d \in 0..7}
Nbrs4(p) == {Add(p, Dir(d)) : d \in {0, 2, 4, 6}}

\* the non-zero points <<x, y>> of a single-channel image
Foreground(gray) == {<<p[2], p[1]>> : p \in {q \in Coords(gray) : gray.px[q][1] # 0}}

\* the first point of a set in raster order (top row first, then leftmost)
TopLeft(S) ==
    CHOOSE p \in S : \A q \in S : p[2] < q[2] \/ (p[2] = q[2] /\ p[1] <= q[1])

RECURSIVE Fill8(_, _, _)
Fill8(S, frontier, seen) ==
    IF frontier = {} THEN seen
    ELSE LET nb == (UNION {Nbrs8(p) : p \in frontier} \cap S) \ seen
         IN  Fill8(S, nb, seen \cup nb)

\* the 8-connected components of a set of points
RECURSIVE Components(_)
Components(S) ==
    IF S = {} THEN {}
    ELSE LET c == Fill8(S, {TopLeft(S)}, {TopLeft(S)})
         IN  {c} \cup Components(S \ c)

RECURSIVE Fill4(_, _, _)
Fill4(Z, frontier, seen) ==
    IF frontier = {} THEN seen
    ELSE LET nb == (UNION {Nbrs4(p) : p \in frontier} \cap Z) \ seen
         IN  Fill4(Z, nb, seen \cup nb)

\* the zero pixels 4-connected to the frame around an h x w image
OuterBackground(S, h, w) ==
    LET Z == {p \in ((0 - 1)..w) \X ((0 - 1)..h) : p \notin S}
    IN  Fill4(Z, {<<0 - 1, 0 - 1>>}, {<<0 - 1, 0 - 1>>})

\* border following (Suzuki-Abe): from point p, whose neighbour in direction
\* b is background, the direction of the first foreground neighbour found
\* clockwise after b; -1 for an isolated point
FirstDir(S, p, b) ==
    LET ks == {k \in 1..8 : Add(p, Dir((b + k) % 8)) \in S}
    IN  IF ks = {} THEN 0 - 1
        ELSE (b + (CHOOSE k \in ks : \A j \in ks : k <= j)) % 8

\* after a move in direction d, the direction back to the last background
\* neighbour that was examined
BackDir(d) == IF d % 2 = 0 THEN (d + 6) % 8 ELSE (d + 5) % 8

\* one step of the border following of component S from its first point
\* start, whose first move is d0: the chain of points collected so far, the
\* current point and the direction of its last background neighbour
TraceStep(S, start, d0, t) ==
    IF t.done THEN t
    ELSE LET d == FirstDir(S, t.p, t.b)
         IN  IF t.p = start /\ d = d0 /\ Len(t.chain) > 0
             THEN [t EXCEPT !.done = TRUE]
             ELSE [p |-> Add(t.p, Dir(d)), b |-> BackDir(d),
                   chain |-> Append(t.chain, t.p), done |-> FALSE]

\* n steps of the border following
RECURSIVE TraceSteps(_, _, _, _, _)
TraceSteps(S, start, d0, t, n) ==
    IF n <= 1 THEN TraceStep(S, start, d0, t)
    ELSE LET half == TraceSteps(S, start, d0, t, n \div 2)
         IN  IF half.done THEN half
             ELSE TraceSteps(S, start, d0, half, n - (n \div 2))

\* the outer border of a component, from its first point in raster order: the
\* border is closed when the following is back on the first point and about
\* to repeat its first move (at most 8 visits of every point)
Border(C) ==
    LET start == TopLeft(C)
        d0 == FirstDir(C, start, 4)
    IN  IF d0 = 0 - 1 THEN <<start>>
        ELSE TraceSteps(C, start, d0,
                        [p |-> start, b |-> 4, chain |-> <<>>, done |-> FALSE],
                        8 * Cardinality(C) + 1).chain

FindContours(gray) ==
    LET S == Foreground(gray)
        comps == Components(S)
        outer == OuterBackground(S, Rows(gray), Cols(gray))
    IN  {Border(C) : C \in {D \in comps : \E p \in D : Nbrs4(p) \cap outer # {}}}

\* twice cv2.contourArea(cnt): Green's formula over the closed chain
TwiceContourArea(cnt) ==
    LET n == Len(cnt)
        Cross(i) == LET a == cnt[i]
                        b == cnt[(i % n) + 1]
                    IN  a[1] * b[2] - b[1] * a[2]
        RECURSIVE Sum(_, _)
        Sum(lo, hi) == IF lo = hi THEN Cross(lo)
                       ELSE Sum(lo, (lo + hi) \div 2) + Sum((lo + hi) \div 2 + 1, hi)
    IN  Abs(Sum(1, n))

SetMin(S) == CHOOSE a \in S : \A b \in S : a <= b
SetMax(S) == CHOOSE a \in S : \A b \in S : a >= b

\* cv2.boundingRect(cnt): x, y, w, h
BoundingRect(cnt) ==
    LET xs == {cnt[i][1] : i \in 1..Len(cnt)}
        ys == {cnt[i][2] : i \in 1..Len(cnt)}
    IN  [x |-> SetMin(xs), y |-> SetMin(ys),
         w |-> SetMax(xs) - SetMin(xs) + 1, h |-> SetMax(ys) - SetMin(ys) + 1]

(***************************************************************************)
(* DifferenceDetection.__init__: the constants of the engine.              *)
(***************************************************************************)
MinCntArea == 10
BgDelMargin == 20
NMergeMask == 2
ExtendMargin == 1

White == <<255, 255, 255>>
Black == <<0, 0, 0>>

\* np.zeros_like(src)
ZerosLike(src) ==
    [shape |-> src.shape,
     px    |-> [p \in Coords(src) |-> [i \in 1..Len(src.px[p]) |-> 0]]]

\* "no background colour" (bg_rgb=None) or the colour to compare with
NoBg == [some |-> FALSE, rgb |-> Black]
SomeBg(rgb) == [some |-> TRUE, rgb |-> rgb]

\* a slip: the box is shrunk whatever its extent
ShrunkInteriorAlways(box, margin) ==
    [x1 |-> box.x + margin, x2 |-> box.x + box.w - margin,
     y1 |-> box.y + margin, y2 |-> box.y + box.h - margin]

\* DifferenceDetection._draw_contours: the slice [y1:y2, x1:x2] that is
\* compared with the background colour, shrunk by the margin on every axis
\* on which the box is larger than twice the margin
ShrunkInterior(box, margin) ==
    [x1 |-> IF box.w > 2 * margin THEN box.x + margin ELSE box.x,
     x2 |-> IF box.w > 2 * margin THEN box.x + box.w - margin ELSE box.x + box.w,
     y1 |-> IF box.h > 2 * margin THEN box.y + margin ELSE box.y,
     y2 |-> IF box.h > 2 * margin THEN box.y + box.h - margin ELSE box.y + box.h]

\* np.all(src[y1:y2, x1:x2] == list(bg_rgb)): a slice stops at the array's
\* bounds; an empty slice compares equal
AllEqualsBg(src, sl, rgb) ==
    \A y \in Max(sl.y1, 0)..(Min(sl.y2, Rows(src)) - 1) :
      \A x \in Max(sl.x1, 0)..(Min(sl.x2, Cols(src)) - 1) :
        src.px[<<y, x>>] = rgb

\* a slip: the area filter lets every contour through
TooSmallNever(cnt, min_area) == FALSE

\* DifferenceDetection._draw_contours: "if cv2.contourArea(cnt) < min_area"
TooSmall(cnt, min_area) == TwiceContourArea(cnt) < 2 * min_area

\* DifferenceDetection._draw_contours: "if bg_rgb is not None: ... continue"
IsBackgroundRect(src, cnt, bg, margin) ==
    /\ bg.some
    /\ AllEqualsBg(src, ShrunkInterior(BoundingRect(cnt), margin), bg.rgb)

\* DifferenceDetection._draw_contours: the contours that get a rectangle
DrawnContours(src, cnts, min_area, bg, margin) ==
    {c \in cnts : ~TooSmall(c, min_area) /\ ~IsBackgroundRect(src, c, bg, margin)}

\* the corners handed to cv2.rectangle for a bounding box
RectOf(box, extend_margin) ==
    [x1 |-> box.x - extend_margin, y1 |-> box.y - extend_margin,
     x2 |-> box.x + box.w + extend_margin, y2 |-> box.y + box.h + extend_margin]

\* cv2.rectangle(dst, pt1, pt2, color, width) reaches pixel <<y, x>>: every
\* pixel between the corners (both included) when width is negative, else the
\* four edges; an edge of width 2 is three pixels wide
OnRectangle(p, r, width) ==
    LET y == p[1]
        x == p[2]
        hw == IF width < 0 THEN 0 ELSE width \div 2
    IN  /\ r.x1 - hw <= x /\ x <= r.x2 + hw
        /\ r.y1 - hw <= y /\ y <= r.y2 + hw
        /\ \/ width < 0
           \/ x <= r.x1 + hw \/ x >= r.x2 - hw
           \/ y <= r.y1 + hw \/ y >= r.y2 - hw

\* dst after cv2.rectangle for every rectangle (pixels outside dst are clipped)
Paint(dst, rects, color, width) ==
    [shape |-> dst.shape,
     px    |-> [p \in Coords(dst) |->
                  IF \E r \in rects : OnRectangle(p, r, width)
                  THEN color ELSE dst.px[p]]]

\* DifferenceDetection._draw_contours
DrawContours(src, dst, cnts, color, width, min_area, bg, margin, extend_margin) ==
    Paint(dst,
          {RectOf(BoundingRect(c), extend_margin) :
             c \in DrawnContours(src, cnts, min_area, bg, margin)},
          color, width)

\* what is kept of a contour in the record of a merge round
Region(cnt) == [box |-> BoundingRect(cnt), area2 |-> TwiceContourArea(cnt)]

\* a slip: the background colour is used whether or not ignore_bg_rect is set
BgOfIgnoresFlag(settings) == SomeBg(settings.bg_color)

\* DifferenceDetection._extract_merged_mask_contour: the bg_rgb argument
BgOf(settings) ==
    IF settings.ignore_bg_rect THEN SomeBg(settings.bg_color) ELSE NoBg

(***************************************************************************)
(* DifferenceDetection._extract_merged_mask_contour from the contours of   *)
(* the mask on: n_repeat rounds of drawing the kept bounding boxes filled  *)
(* on a blank canvas and extracting the contours of the canvas.  The       *)
(* result is the last contours and, for every round, the regions that      *)
(* were found and the ones that were drawn.                                *)
(***************************************************************************)
RECURSIVE MergeRounds(_, _, _, _, _)
MergeRounds(src, settings, cnts, n, rounds) ==
    IF n = 0 THEN [cnts |-> cnts, rounds |-> rounds]
    ELSE LET dmask == DrawContours(src, ZerosLike(src), cnts, White, 0 - 1,
                                   MinCntArea, BgOf(settings), BgDelMargin,
                                   ExtendMargin)
             dgray == CvtRGB2Gray(dmask).val
             drawn == DrawnContours(src, cnts, MinCntArea, BgOf(settings),
                                    BgDelMargin)
         IN  MergeRounds(src, settings, FindContours(dgray), n - 1,
                         Append(rounds,
                                [found |-> {Region(c) : c \in cnts},
                                 drawn |-> {Region(c) : c \in drawn}]))

\* a slip: the loop body runs once, whatever n_repeat is
ExtractMergedMaskContourOnce(src, settings, mask, n_repeat) ==
    MergeRounds(src, settings, FindContours(mask), 1, <<>>)

\* DifferenceDetection._extract_merged_mask_contour
ExtractMergedMaskContour(src, settings, mask, n_repeat) ==
    MergeRounds(src, settings, FindContours(mask), n_repeat, <<>>)

\* DifferenceDetection._draw_output_contour
DrawOutputContour(src, settings, cnts) ==
    DrawContours(src, src, cnts, settings.line_color, settings.line_width,
                 0, NoBg, 0, 0)

\* a slip: dst=src, the outlines are drawn on the page itself
DstIsSrc(src) == TRUE

\* DifferenceDetection._draw_output_contour, "dst=src.copy()": whether dst
\* shares the pixels of src
DstSharesSrc(src) == FALSE

\* an image without pixels, where a result holds none
NoImage == [shape |-> <<0, 0>>, px |-> [p \in {} |-> <<0>>]]

\* the record of a call of difference(): how it ended ("passthrough": the
\* inputs were returned as they are; "annotated"; "raised"), the two
\* images returned, and what was computed on the way
DiffResult(status, dst1, dst2, mask, e1, e2) ==
    [status |-> status, dst1 |-> dst1, dst2 |-> dst2, mask |-> mask,
     rounds1 |-> e1.rounds, rounds2 |-> e2.rounds,
     regions1 |-> {BoundingRect(c) : c \in e1.cnts},
     regions2 |-> {BoundingRect(c) : c \in e2.cnts}]

NoExtract == [cnts |-> {}, rounds |-> <<>>]

\* DifferenceDetection.difference
Difference(src1, src2, settings) ==
    IF ~ImageSameSize(src1, src2)
    THEN DiffResult("passthrough", src1, src2, NoImage, NoExtract, NoExtract)
    ELSE LET c1 == ConvertToColor(src1)
             c2 == ConvertToColor(src2)
         IN  IF c1.raised \/ c2.raised
             THEN DiffResult("raised", NoImage, NoImage, NoImage, NoExtract, NoExtract)
             ELSE LET mask == MaskDiffArea(c1.val, c2.val)
                  IN  IF mask.raised
                      THEN DiffResult("raised", NoImage, NoImage, NoImage,
                                      NoExtract, NoExtract)
                      ELSE LET e1 == ExtractMergedMaskContour(c1.val, settings,
                                                              mask.val, NMergeMask)
                               e2 == ExtractMergedMaskContour(c2.val, settings,
                                                              mask.val, NMergeMask)
                           IN  DiffResult("annotated",
                                          DrawOutputContour(c1.val, settings, e1.cnts),
                                          DrawOutputContour(c2.val, settings, e2.cnts),
                                          mask.val, e1, e2)

NavInit ==
    /\ img = [s \in Sides |-> NoImg]
    /\ curpage = [s \in Sides |-> 0]
    /\ page_le = [s \in Sides |-> <<>>]
    /\ total_lbl = [s \in Sides |-> <<>>]
    /\ fp_le = [s \in Sides |-> NoFile]
    /\ btn_enabled = [s \in Sides |-> FALSE]
    /\ sync_enabled = FALSE
    /\ view_page = [s \in Sides |-> NoPage]
    /\ diffview = NoView
    /\ crashed = FALSE
    /\ last = [op |-> "init", side |-> "L", p |-> 0, calls |-> {},
               emit |-> NoEmit, raised |-> FALSE]
    /\ run = 0

\* settings.model.get_default_settings
DefaultSettings ==
    [line_color |-> <<255, 85, 0>>, line_width |-> 2, ignore_bg_rect |-> TRUE,
     bg_color |-> White, apply_mdesign |-> TRUE]

\* difference() has not been called
NoResult == DiffResult("none", NoImage, NoImage, NoImage, NoExtract, NoExtract)

\* the window after construction: nothing loaded, nothing compared
\* load_pages is not running
NoLoad ==
    [suff |-> "", with_cb |-> FALSE, total |-> 0, n |-> 0, cb |-> <<>>,
     at |-> "idle", app |-> "none", touched |-> {}]

(***************************************************************************)
(* The settings file and the Settings object.  A file holds text that is   *)
(* no JSON, a JSON array, or a JSON object with some keys; tuples are      *)
(* written as JSON arrays and arrays are read as lists.                    *)
(***************************************************************************)
\* the fields of the dataclass Settings
FieldNames ==
    {"line_color", "line_width", "ignore_bg_rect", "bg_color", "apply_mdesign"}

\* no file at the path: Path(fp).is_file() is False
NoSettingsFile ==
    [exists |-> FALSE, json |-> "none", keys |-> {}, val |-> DefaultSettings]
\* a file whose text json.load rejects
InvalidJson ==
    [exists |-> TRUE, json |-> "invalid", keys |-> {}, val |-> DefaultSettings]
\* a file that holds a JSON array
JsonArray ==
    [exists |-> TRUE, json |-> "array", keys |-> {}, val |-> DefaultSettings]
\* a file that holds a JSON object with the given keys and their values
JsonObject(keys, val) ==
    [exists |-> TRUE, json |-> "object", keys |-> keys, val |-> val]

\* a Settings object: its field values, and whether its colours are tuples
\* (as constructed in get_default_settings) or lists (as json.load gives)
SettingsOf(val, tuples) ==
    [held |-> TRUE, raised |-> FALSE, val |-> val, tuples |-> tuples]
\* __main__ has not called Settings.initialize yet
NoSettings ==
    [held |-> FALSE, raised |-> FALSE, val |-> DefaultSettings, tuples |-> TRUE]

\* settings.model.get_default_settings()
GetDefaultSettings == SettingsOf(DefaultSettings, TRUE)

\* Settings.write: json.dump(asdict(self)); the file then holds an object
\* with the five fields, the colours as arrays
Write(st) == JsonObject(FieldNames, st.val)

\* Settings.read: json.load, then cls(**d)
Read(file) ==
    IF file.json # "object" \/ file.keys # FieldNames
    THEN Raise(NoSettings)
    ELSE Ok(SettingsOf(file.val, FALSE))

\* a slip: only json.JSONDecodeError is caught
InitializeCatchesJsonOnly(file) ==
    IF file.exists /\ ~Read(file).raised
    THEN [raised |-> FALSE, settings |-> Read(file).val, file |-> file]
    ELSE IF file.exists /\ file.json # "invalid"
         THEN [raised |-> TRUE, settings |-> NoSettings, file |-> file]
         ELSE [raised |-> FALSE, settings |-> GetDefaultSettings,
               file |-> Write(GetDefaultSettings)]

\* Settings.initialize(fp): what it returns, whether an exception leaves
\* it, and the file afterwards
Initialize(file) ==
    IF file.exists /\ ~Read(file).raised
    THEN [raised |-> FALSE, settings |-> Read(file).val, file |-> file]
    ELSE [raised |-> FALSE, settings |-> GetDefaultSettings,
          file |-> Write(GetDefaultSettings)]

\* SettingsDialogController.window = None, no settings window shown, run()
\* not called
NoDialog == [window |-> "None", shown |-> 0, runs |-> 0, raised |-> FALSE]

\* the settings are not in use
SettingsIdle ==
    /\ settings_file = NoSettingsFile
    /\ settings_obj = NoSettings
    /\ settings_dialog = NoDialog

Init ==
    /\ NavInit
    /\ SettingsIdle
    /\ loader = NoLoad
    /\ page_l_data = NoImage
    /\ page_r_data = NoImage
    /\ detection_settings = DefaultSettings
    /\ out = NoResult

\* MainWindowController.__init__: the page_ref each loader is wired with
PageRef(s, way) ==
    IF way = "drop" /\ s = "R" THEN "R" ELSE Other(s)

Ways == {"dialog", "drop"}
Kinds == {"ppt", "tiff"}
LoadFailures == {"unsupported", "not_found", "load_error"}

\* the page counts of the documents that are loaded
DocTotals == {0, 1, MaxTotal - 2, MaxTotal}

\* the page counts a document of a kind can have: a presentation may hold no
\* slide, a multi-frame image holds at least one frame
TotalsOf(kind) == IF kind = "ppt" THEN DocTotals ELSE DocTotals \ {0}

\* the record of a handler: its name, the side it was started on, its page
\* argument, the sides whose PageTurning.go_* it called, the pages it handed
\* to each side's update_func, and whether an exception left it
Rec(op, s, p, calls, emit, raised) ==
    [op |-> op, side |-> s, p |-> p, calls |-> calls, emit |-> emit,
     raised |-> raised]

\* a slip: the source is attached to the cursor before it is opened
LoadFailsAfterAttach(s, way, why) ==
    /\ ~crashed
    /\ crashed' = TRUE
    /\ why \in LoadFailures
    /\ last' = Rec("load_failed:" \o why, s, 0, {}, NoEmit, TRUE)
    /\ run' = 0
    /\ img' = [img EXCEPT ![s] = Image(0)]
    /\ total_lbl' = [total_lbl EXCEPT ![s] = Str(0)]
    /\ UNCHANGED <<curpage, page_le, fp_le, btn_enabled, sync_enabled,
                   view_page, diffview>>

(***************************************************************************)
(* MainWindowController._set_image_pages fails before load_image: the      *)
(* suffix is not a key of ImageFactory.types (create), the path is not a   *)
(* file (open), or load_pages raises.  The exception leaves the handler.   *)
(***************************************************************************)
LoadFails(s, way, why) ==
    /\ ~crashed
    /\ crashed' = TRUE
    /\ why \in LoadFailures
    /\ last' = Rec("load_failed:" \o why, s, 0, {}, NoEmit, TRUE)
    /\ run' = 0
    /\ UNCHANGED <<img, curpage, page_le, total_lbl, fp_le, btn_enabled,
                   sync_enabled, view_page, diffview>>

\* MainWindowController._set_image_pages_with_dialog: _select_file gave None
DialogCancel(s) ==
    /\ ~crashed
    /\ UNCHANGED <<img, curpage, page_le, total_lbl, fp_le, btn_enabled,
                   sync_enabled, view_page, diffview, crashed, last, run>>

\* a slip: a cursor that holds a source keeps it
LoadImageKeepsSource(s, total) ==
    [img |-> IF img[s] = NoImg THEN Image(total) ELSE img[s],
     total_lbl |-> Str(total), curpage |-> curpage[s]]

\* PageTurning.load_image(img) on side s, img a source of total pages: the
\* cursor's fields afterwards (self.curpage is not assigned)
LoadImage(s, total) ==
    [img |-> Image(total), total_lbl |-> Str(total), curpage |-> curpage[s]]

(***************************************************************************)
(* MainWindowController._set_image_pages, open and load_pages succeeded:   *)
(* load_image, fp_le.setText, go_first_page, enable, and the synchronized  *)
(* controls are enabled when page_ref is loaded.                           *)
(***************************************************************************)
LoadFile(s, way, kind, total) ==
    /\ ~crashed
    /\ total \in TotalsOf(kind)
    /\ LET raises == GetPageRaises(total, 1)
       IN  /\ img' = [img EXCEPT ![s] = LoadImage(s, total).img]
           /\ total_lbl' = [total_lbl EXCEPT ![s] = LoadImage(s, total).total_lbl]
           /\ fp_le' = [fp_le EXCEPT ![s] = File(total)]
           /\ curpage' = [curpage EXCEPT ![s] = 1]
           /\ page_le' = IF raises THEN page_le ELSE [page_le EXCEPT ![s] = Str(1)]
           /\ view_page' = IF raises THEN view_page
                           ELSE [view_page EXCEPT ![s] = GetPage(total, 1)]
           /\ diffview' = IF raises THEN Entering(diffview)
                          ELSE UpdateSide(s, <<GetPage(total, 1)>>, view_page,
                                          Entering(diffview))
           /\ btn_enabled' = IF raises THEN btn_enabled
                             ELSE [btn_enabled EXCEPT ![s] = TRUE]
           /\ sync_enabled' = IF raises THEN sync_enabled
                              ELSE (sync_enabled \/ img'[PageRef(s, way)] # NoImg)
           /\ crashed' = raises
           /\ last' = Rec("load", s, total, {s},
                          IF raises THEN NoEmit
                          ELSE [NoEmit EXCEPT ![s] = <<GetPage(total, 1)>>],
                          raises)
           /\ run' = 0

\* the effects of one PageTurning.go_* call on side s
ApplyNav(s, r) ==
    /\ curpage' = [curpage EXCEPT ![s] = r.cur]
    /\ page_le' = [page_le EXCEPT ![s] = r.le]
    /\ view_page' = [view_page EXCEPT ![s] = ViewAfter(s, r)]
    /\ diffview' = UpdateSide(s, r.emit, view_page, Entering(diffview))
    /\ crashed' = r.raised

\* a click on firstBtn / lastBtn / prevBtn / nextBtn of one side
Click(s, op) ==
    /\ ~crashed
    /\ btn_enabled[s]
    /\ op \in NavOps \ {"go_page_no"}
    /\ LET r == Nav(op, s, 0)
       IN  /\ ApplyNav(s, r)
           /\ last' = Rec(op, s, 0, {s}, [NoEmit EXCEPT ![s] = r.emit], r.raised)
    /\ run' = 0
    /\ UNCHANGED <<img, total_lbl, fp_le, btn_enabled, sync_enabled>>

\* the user edits the page-number field
TypeText(s, t) ==
    /\ ~crashed
    /\ btn_enabled[s]
    /\ t \in TypedTexts
    /\ t # page_le[s]
    /\ page_le' = [page_le EXCEPT ![s] = t]
    /\ last' = Rec("type", s, 0, {}, NoEmit, FALSE)
    /\ run' = 0
    /\ UNCHANGED <<img, curpage, total_lbl, fp_le, btn_enabled, sync_enabled,
                   view_page, diffview, crashed>>

\* MainWindowController._show_slide_no (pageLE.enterEvent)
ShowSlideNo(s) ==
    /\ ~crashed
    /\ IF ~IsDecimal(page_le[s])
       THEN /\ page_le' = [page_le EXCEPT ![s] = Str(curpage[s])]
            /\ last' = Rec("show_reset", s, 0, {}, NoEmit, FALSE)
            /\ UNCHANGED <<curpage, view_page, diffview, crashed>>
       ELSE LET p == IntOf(page_le[s])
                r == Nav("go_page_no", s, p)
            IN  /\ ApplyNav(s, r)
                /\ last' = Rec("go_page_no", s, p, {s},
                               [NoEmit EXCEPT ![s] = r.emit], r.raised)
    /\ run' = 0
    /\ UNCHANGED <<img, total_lbl, fp_le, btn_enabled, sync_enabled>>

\* a slip: the synchronized operation returns unless both sides are loaded
SyncNavNeedsBoth(op) ==
    LET both == IsLoaded("L") /\ IsLoaded("R")
        rl == IF both THEN Nav(op, "L", 0)
              ELSE [cur |-> curpage["L"], le |-> page_le["L"], emit |-> <<>>,
                    raised |-> FALSE]
        rr == IF both /\ ~rl.raised THEN Nav(op, "R", 0)
              ELSE [cur |-> curpage["R"], le |-> page_le["R"], emit |-> <<>>,
                    raised |-> rl.raised]
    IN  /\ curpage' = [L |-> rl.cur, R |-> rr.cur]
        /\ page_le' = [L |-> rl.le, R |-> rr.le]
        /\ view_page' = [L |-> ViewAfter("L", rl), R |-> ViewAfter("R", rr)]
        /\ diffview' =
              UpdateSide("R", rr.emit, [view_page EXCEPT !["L"] = ViewAfter("L", rl)],
                         UpdateSide("L", rl.emit, view_page, Entering(diffview)))
        /\ crashed' = rr.raised
        /\ last' = Rec("sync_" \o op, "both", 0,
                       IF rl.raised THEN {"L"} ELSE {"L", "R"},
                       [L |-> rl.emit, R |-> rr.emit], rr.raised)
        /\ run' = IF op = "go_next" /\ both /\ ~rr.raised
                  THEN (IF curpage["L"] = 1 /\ curpage["R"] = 1 THEN 1
                        ELSE IF run \in 1..(MaxRun - 1) THEN run + 1 ELSE 0)
                  ELSE 0
        /\ UNCHANGED <<img, total_lbl, fp_le, btn_enabled, sync_enabled>>

(***************************************************************************)
(* SyncPageTurning.go_first_page / go_last_page / go_prev_page /           *)
(* go_next_page: the operation of the left cursor, then that of the right  *)
(* one (not reached when the left one raises).                             *)
(***************************************************************************)
SyncNav(op) ==
    LET rl == Nav(op, "L", 0)
        rr == IF rl.raised
              THEN [cur |-> curpage["R"], le |-> page_le["R"], emit |-> <<>>,
                    raised |-> TRUE]
              ELSE Nav(op, "R", 0)
        both == IsLoaded("L") /\ IsLoaded("R")
    IN  /\ curpage' = [L |-> rl.cur, R |-> rr.cur]
        /\ page_le' = [L |-> rl.le, R |-> rr.le]
        /\ view_page' = [L |-> ViewAfter("L", rl), R |-> ViewAfter("R", rr)]
        /\ diffview' =
              UpdateSide("R", rr.emit, [view_page EXCEPT !["L"] = ViewAfter("L", rl)],
                         UpdateSide("L", rl.emit, view_page, Entering(diffview)))
        /\ crashed' = rr.raised
        /\ last' = Rec("sync_" \o op, "both", 0,
                       IF rl.raised THEN {"L"} ELSE {"L", "R"},
                       [L |-> rl.emit, R |-> rr.emit], rr.raised)
        /\ run' = IF op = "go_next" /\ both /\ ~rr.raised
                  THEN (IF curpage["L"] = 1 /\ curpage["R"] = 1 THEN 1
                        ELSE IF run \in 1..(MaxRun - 1) THEN run + 1 ELSE 0)
                  ELSE 0
        /\ UNCHANGED <<img, total_lbl, fp_le, btn_enabled, sync_enabled>>

\* a click on firstBtn_sync / lastBtn_sync / prevBtn_sync / nextBtn_sync
SyncClick(op) ==
    /\ ~crashed
    /\ sync_enabled
    /\ op \in NavOps \ {"go_page_no"}
    /\ SyncNav(op)

\* MainWindowController._register_key_event: Home / End / PageUp / PageDown
KeyPress(op) ==
    /\ ~crashed
    /\ op \in NavOps \ {"go_page_no"}
    /\ SyncNav(op)

NavNext ==
    \/ \E s \in Sides, way \in Ways, kind \in Kinds, total \in DocTotals :
          LoadFile(s, way, kind, total)
    \/ \E s \in Sides, way \in Ways, why \in LoadFailures : LoadFails(s, way, why)
    \/ \E s \in Sides : DialogCancel(s)
    \/ \E s \in Sides, op \in NavOps : Click(s, op)
    \/ \E s \in Sides, t \in TypedTexts : TypeText(s, t)
    \/ \E s \in Sides : ShowSlideNo(s)
    \/ \E op \in NavOps : SyncClick(op)
    \/ \E op \in NavOps : KeyPress(op)

Next == NavNext /\ UNCHANGED diffvars /\ UNCHANGED loader /\ UNCHANGED setvars

vars == <<navvars, diffvars, loader, setvars>>

Spec == Init /\ [][Next]_vars

(***************************************************************************)
(* DifferenceDetection.difference as a pure function: the pages and the    *)
(* settings of a call are drawn from bounded families, and the call is     *)
(* made once.                                                              *)
(***************************************************************************)

\* a page of one colour, h rows by w columns, three channels
Solid(h, w, color) ==
    [shape |-> <<h, w, 3>>,
     px    |-> [p \in (0..(h - 1)) \X (0..(w - 1)) |-> color]]

\* the page with the block of w by h pixels at column x, row y recoloured
WithBlock(page, x, y, w, h, color) ==
    [page EXCEPT !.px = [p \in DOMAIN page.px |->
        IF p[2] \in x..(x + w - 1) /\ p[1] \in y..(y + h - 1)
        THEN color ELSE page.px[p]]]

\* the page with rows and columns exchanged
Transposed(page) ==
    [shape |-> <<Cols(page), Rows(page), 3>>,
     px    |-> [p \in (0..(Cols(page) - 1)) \X (0..(Rows(page) - 1)) |->
                  page.px[<<p[2], p[1]>>]]]

\* colours whose intensities are 255, 255, 254, 253 and 0
Palette ==
    {White, <<254, 255, 255>>, <<253, 255, 255>>, <<249, 255, 255>>, Black}

\* every three-channel page of one row
TinyPages ==
    {[shape |-> <<1, TinyW, 3>>,
      px    |-> [p \in {0} \X (0..(TinyW - 1)) |-> row[p[2] + 1]]] :
       row \in [1..TinyW -> Palette]}

\* pages of one value in every shape an array of 8-bit pixels comes in:
\* two-dimensional (no channel axis), and with 1, 3 or 4 channels
Shapes ==
    {<<1, 3>>, <<1, 4>>, <<2, 3>>, <<1, 3, 1>>, <<1, 3, 3>>, <<1, 4, 3>>,
     <<2, 3, 3>>, <<1, 3, 4>>, <<1, 4, 4>>}

Uniform(shape, v) ==
    [shape |-> shape,
     px    |-> [p \in (0..(shape[1] - 1)) \X (0..(shape[2] - 1)) |->
                  [i \in 1..(IF Len(shape) = 2 THEN 1 ELSE shape[3]) |-> v]]]

ShapedPages == {Uniform(shape, v) : shape \in Shapes, v \in {100, 200}}

\* the wide pages: blank ones, and the drawings compared with them
WidePaper == Solid(WideH, WideW, White)
WideBoard == Solid(WideH, WideW, Black)
CentreBar == WithBlock(WidePaper, 21, 1, 4, 2, Black)
SideBars ==
    WithBlock(WithBlock(WidePaper, 1, 1, 20, 2, Black), 25, 1, 20, 2, Black)

WidePairs ==
    {<<WidePaper, WithBlock(WidePaper, 3, 1, 1, 1, Black)>>,
     <<WidePaper, WithBlock(WidePaper, 3, 1, 3, 3, Black)>>,
     <<WidePaper, WithBlock(WidePaper, 3, 1, 4, 4, Black)>>,
     <<WidePaper, WithBlock(WidePaper, 3, 1, 6, 3, Black)>>,
     <<WidePaper, WithBlock(WidePaper, 3, 1, 6, 3, <<253, 255, 255>>)>>,
     <<WidePaper, WithBlock(WidePaper, 3, 1, 6, 3, <<249, 255, 255>>)>>,
     <<WidePaper,
       WithBlock(WithBlock(WidePaper, 3, 1, 6, 3, Black), 30, 2, 2, 2, Black)>>,
     <<WithBlock(WidePaper, 3, 1, 6, 3, Black),
       WithBlock(WidePaper, 13, 1, 6, 3, Black)>>,
     <<WithBlock(WidePaper, 3, 1, 6, 3, Black),
       WithBlock(WidePaper, 30, 1, 6, 3, Black)>>,
     <<WidePaper, WithBlock(WidePaper, 1, 1, 44, 2, Black)>>,
     <<WideBoard, WithBlock(WideBoard, 3, 1, 6, 3, White)>>,
     <<CentreBar, SideBars>>,
     <<SideBars, SideBars>>,
     <<Transposed(CentreBar), Transposed(SideBars)>>}

\* three boxes in a row, each near the next one only
ThreeInARow ==
    WithBlock(WithBlock(WithBlock(WidePaper, 3, 1, 6, 3, Black),
                        13, 1, 6, 3, Black), 23, 1, 6, 3, Black)

\* four bars around a box: the bars do not touch each other
FramePaper == Solid(FrameW, FrameW, White)
FourBars ==
    WithBlock(WithBlock(WithBlock(WithBlock(FramePaper, 1, 1, 2, 17, Black),
                                  16, 1, 2, 17, Black),
                        4, 1, 11, 2, Black), 4, 16, 11, 2, Black)
BoxInBars == WithBlock(FourBars, 7, 7, 4, 5, Black)

MergePairs ==
    {<<WidePaper, ThreeInARow>>, <<FramePaper, FourBars>>,
     <<FramePaper, BoxInBars>>}

\* Settings as the settings dialog can leave them
WideSettings ==
    {[DefaultSettings EXCEPT !.ignore_bg_rect = ign, !.bg_color = bg,
                             !.line_width = lw] :
       ign \in BOOLEAN, bg \in {White, Black}, lw \in {2}}
    \cup {[DefaultSettings EXCEPT !.line_width = 1],
          [DefaultSettings EXCEPT !.line_width = 0 - 1, !.ignore_bg_rect = FALSE]}

\* the calls of difference(): the pages and the settings
Calls ==
    {[src1 |-> a, src2 |-> b, settings |-> DefaultSettings] :
       a \in TinyPages, b \in TinyPages}
    \cup {[src1 |-> a, src2 |-> b,
           settings |-> [DefaultSettings EXCEPT !.ignore_bg_rect = FALSE]] :
            a \in ShapedPages, b \in ShapedPages}
    \cup {[src1 |-> pair[1], src2 |-> pair[2], settings |-> cfg] :
            pair \in WidePairs, cfg \in WideSettings}
    \cup {[src1 |-> pair[1], src2 |-> pair[2], settings |-> cfg] :
            pair \in MergePairs,
            cfg \in {DefaultSettings,
                     [DefaultSettings EXCEPT !.ignore_bg_rect = FALSE]}}

InitDiff ==
    /\ NavInit
    /\ \E c \in Calls :
          /\ page_l_data = c.src1
          /\ page_r_data = c.src2
          /\ detection_settings = c.settings
    /\ out = NoResult
    /\ loader = NoLoad
    /\ SettingsIdle

(***************************************************************************)
(* The arguments of difference() and the settings object after the call    *)
(* that ended as res.  _convert_to_color hands a three-channel page on as  *)
(* it is, so the src of _draw_output_contour is the caller's array; the    *)
(* outlines change it only if dst shares its pixels.  The canvases of the  *)
(* merge rounds (np.zeros_like) and the results of cv2.cvtColor are new    *)
(* arrays, and no attribute of self.settings is assigned.                  *)
(***************************************************************************)
InputsAfterDifference(src1, src2, settings, res) ==
    [src1 |-> IF res.status = "annotated" /\ LastDim(src1) = 3
                 /\ DstSharesSrc(src1)
              THEN res.dst1 ELSE src1,
     src2 |-> IF res.status = "annotated" /\ LastDim(src2) = 3
                 /\ DstSharesSrc(src2)
              THEN res.dst2 ELSE src2,
     settings |-> settings]

\* DifferenceView.update_view: self.detection.difference(src1=..., src2=...)
CallDifference ==
    /\ out.status = "none"
    /\ LET res == Difference(page_l_data, page_r_data, detection_settings)
           after == InputsAfterDifference(page_l_data, page_r_data,
                                          detection_settings, res)
       IN  /\ out' = res
           /\ page_l_data' = after.src1
           /\ page_r_data' = after.src2
           /\ detection_settings' = after.settings
    /\ UNCHANGED navvars
    /\ UNCHANGED loader
    /\ UNCHANGED setvars

NextDiff == CallDifference

SpecDiff == InitDiff /\ [][NextDiff]_vars

(***************************************************************************)
(* PPTImage.load_pages / TiffImage.load_pages, one iteration of the loop   *)
(* at a time: the document (the suffix selects the class) has been opened  *)
(* and holds total pages.                                                  *)
(***************************************************************************)

\* ImageFactory.types
Suffixes == {".pptx", ".ppt", ".tiff", ".tif"}
KindOf(suff) == IF suff \in {".pptx", ".ppt"} THEN "ppt" ELSE "tiff"

\* the page counts of the documents whose pages are read
LoadTotals(kind) == IF kind = "ppt" THEN 0..MaxTotal ELSE 1..MaxTotal

\* the loop variable i of the iteration that follows n pages read:
\* "enumerate(self._prs.Slides, start=1)" in PPTImage.load_pages,
\* "range(self._img.n_frames)" in TiffImage.load_pages
LoopIndex(kind, n) == IF kind = "ppt" THEN n + 1 ELSE n

InitLoad ==
    /\ NavInit
    /\ SettingsIdle
    /\ page_l_data = NoImage
    /\ page_r_data = NoImage
    /\ detection_settings = DefaultSettings
    /\ out = NoResult
    /\ \E suff \in Suffixes, with_cb \in BOOLEAN :
          \E total \in LoadTotals(KindOf(suff)) :
             loader = [suff |-> suff, with_cb |-> with_cb, total |-> total,
                       n |-> 0, cb |-> <<>>, at |-> "created", app |-> "none",
                       touched |-> {}]

(***************************************************************************)
(* open_presentation as PPTImage.open uses it: the state of the PowerPoint *)
(* application (win32com Dispatch) when the "with" block is left.  The     *)
(* block only stores prs and reads len(prs.Slides); "finally: app.Quit()"  *)
(* runs when it is left.  TiffImage.open starts no application.            *)
(***************************************************************************)
AppAfterOpen(kind) == IF kind = "ppt" THEN "quit" ELSE "none"

\* PPTImage.open / TiffImage.open
OpenSource ==
    /\ loader.at = "created"
    /\ loader' = [loader EXCEPT !.at = "loading",
                                !.app = AppAfterOpen(KindOf(loader.suff))]
    /\ UNCHANGED <<navvars, diffvars, setvars>>

\* load_pages touches self._prs (prs.Slides, slide.Export, prs.Close): the
\* states of the application in which the handle was used so far
Touch_prs(kind) ==
    IF kind = "ppt" THEN loader.touched \cup {loader.app} ELSE loader.touched

\* one iteration: the page is read and appended, then "callback(i)" if a
\* callback was given
LoadPage ==
    /\ loader.at = "loading"
    /\ loader.n < loader.total
    /\ loader' = [loader EXCEPT
                    !.n = loader.n + 1,
                    !.touched = Touch_prs(KindOf(loader.suff)),
                    !.cb = IF loader.with_cb
                           THEN Append(loader.cb,
                                       LoopIndex(KindOf(loader.suff), loader.n))
                           ELSE loader.cb]
    /\ UNCHANGED <<navvars, diffvars, setvars>>

\* reading a page raises (slide.Export, imread, seek): the exception leaves
\* load_pages before the page is appended
LoadPageRaises ==
    /\ loader.at = "loading"
    /\ loader.n < loader.total
    /\ loader' = [loader EXCEPT !.at = "failed",
                                !.touched = Touch_prs(KindOf(loader.suff))]
    /\ UNCHANGED <<navvars, diffvars, setvars>>

\* the loop is over: "self.pages = pages_", and "self._prs.Close()" in
\* PPTImage.load_pages
LoadPagesReturn ==
    /\ loader.at = "loading"
    /\ loader.n = loader.total
    /\ loader' = [loader EXCEPT !.at = "done",
                                !.touched = Touch_prs(KindOf(loader.suff))]
    /\ UNCHANGED <<navvars, diffvars, setvars>>

NextLoad == OpenSource \/ LoadPage \/ LoadPageRaises \/ LoadPagesReturn

SpecLoad == InitLoad /\ [][NextLoad]_vars

(***************************************************************************)
(* The settings at start-up and the settings window: __main__ calls        *)
(* Settings.initialize on whatever file is at the path; the settings       *)
(* window is opened with SettingsDialogController.run and closed by the    *)
(* user; its widgets assign a field and call update().                     *)
(***************************************************************************)
\* the run() calls followed
MaxOpens == 3

\* the values a file or a widget gives line_width
LineWidths == 1..3

\* the files found at the path at start-up
SettingsFiles ==
    {NoSettingsFile, InvalidJson, JsonArray}
    \cup {JsonObject(keys, [DefaultSettings EXCEPT !.line_width = w,
                                                   !.ignore_bg_rect = b]) :
             keys \in {FieldNames, FieldNames \ {"apply_mdesign"},
                       FieldNames \cup {"last_folder"}, {}},
             w \in LineWidths, b \in BOOLEAN}

InitSettings ==
    /\ NavInit
    /\ loader = NoLoad
    /\ page_l_data = NoImage
    /\ page_r_data = NoImage
    /\ detection_settings = DefaultSettings
    /\ out = NoResult
    /\ settings_file \in SettingsFiles
    /\ settings_obj = NoSettings
    /\ settings_dialog = NoDialog

\* __main__: settings = Settings.initialize(fp=_settings_file)
\* (an exception that leaves initialize ends the program)
Startup ==
    /\ ~settings_obj.held
    /\ ~settings_obj.raised
    /\ LET r == Initialize(settings_file)
       IN  /\ settings_obj' = IF r.raised
                              THEN [NoSettings EXCEPT !.raised = TRUE]
                              ELSE r.settings
           /\ settings_file' = r.file
    /\ UNCHANGED settings_dialog
    /\ UNCHANGED <<navvars, diffvars, loader>>

(***************************************************************************)
(* SettingsDialogController.update as the constructor and the widget       *)
(* handlers call it: callback(), then self.settings.write().  It raises    *)
(* when the callback raises or when write raises: write is called without  *)
(* a path, which Settings.write(self, fp) of settings/model.py rejects     *)
(* (TypeError); a Settings whose write knows its path writes the file, or  *)
(* fails on the file system.  The file afterwards, and whether an          *)
(* exception leaves update.                                                *)
(***************************************************************************)
Update(st, callback_raises, write_raises) ==
    IF callback_raises \/ write_raises
    THEN [raised |-> TRUE, file |-> settings_file]
    ELSE [raised |-> FALSE, file |-> Write(st)]

(***************************************************************************)
(* SettingsDialogController.run: returns when cls.window is set; else it   *)
(* creates the window, assigns cls.window, constructs the controller       *)
(* (whose __init__ ends with update()) and shows the window.               *)
(***************************************************************************)
Run(callback_raises, write_raises) ==
    /\ settings_obj.held
    /\ settings_dialog.runs < MaxOpens
    /\ IF settings_dialog.window # "None"
       THEN /\ settings_dialog' = [settings_dialog EXCEPT !.runs = @ + 1,
                                                          !.raised = FALSE]
            /\ UNCHANGED settings_file
       ELSE LET u == Update(settings_obj, callback_raises, write_raises)
            IN  /\ settings_dialog' =
                      [window |-> "QMainWindow",
                       shown  |-> IF u.raised THEN settings_dialog.shown
                                  ELSE settings_dialog.shown + 1,
                       runs   |-> settings_dialog.runs + 1,
                       raised |-> u.raised]
                /\ settings_file' = u.file
    /\ UNCHANGED settings_obj
    /\ UNCHANGED <<navvars, diffvars, loader>>

\* the user closes the settings window: window_close_event
WindowCloseEvent ==
    /\ settings_dialog.shown > 0
    /\ settings_dialog' = [settings_dialog EXCEPT !.window = "None",
                                                  !.shown = @ - 1]
    /\ UNCHANGED <<settings_file, settings_obj>>
    /\ UNCHANGED <<navvars, diffvars, loader>>

\* SettingsDialogController.set_line_width (lineWidthSB.valueChanged)
SetLineWidth(w, callback_raises, write_raises) ==
    /\ settings_dialog.shown > 0
    /\ w # settings_obj.val.line_width
    /\ settings_obj' = [settings_obj EXCEPT !.val.line_width = w]
    /\ settings_file' = Update(settings_obj', callback_raises, write_raises).file
    /\ UNCHANGED settings_dialog
    /\ UNCHANGED <<navvars, diffvars, loader>>

\* SettingsDialogController.switch_ignore_bg (ignoreBgCB.stateChanged)
SwitchIgnoreBg(callback_raises, write_raises) ==
    /\ settings_dialog.shown > 0
    /\ settings_obj' = [settings_obj EXCEPT !.val.ignore_bg_rect = ~@]
    /\ settings_file' = Update(settings_obj', callback_raises, write_raises).file
    /\ UNCHANGED settings_dialog
    /\ UNCHANGED <<navvars, diffvars, loader>>

NextSettings ==
    \/ Startup
    \/ \E c \in BOOLEAN, w \in BOOLEAN : Run(c, w)
    \/ WindowCloseEvent
    \/ \E v \in LineWidths, c \in BOOLEAN, w \in BOOLEAN : SetLineWidth(v, c, w)
    \/ \E c \in BOOLEAN, w \in BOOLEAN : SwitchIgnoreBg(c, w)

SpecSettings == InitSettings /\ [][NextSettings]_vars

(***************************************************************************)
(* Properties of the cursors and of the synchronized control.              *)
(***************************************************************************)

\* the PageTurning operation that the last handler called on side s
CalledOn(s, op) ==
    /\ s \in last.calls
    /\ \/ last.op = op
       \/ last.op = "sync_" \o op
       \/ last.op = "load" /\ op = "go_first"

\* integers handed to _within_page_range when it is read as a function
TestInts == (0 - 2)..(MaxTotal + 2)

\* C1: whenever a side has a page source attached, its current index
\* satisfies 1 <= index <= total of that source.
C1_IndexWithinSource ==
    \A s \in Sides : IsLoaded(s) => (1 <= curpage[s] /\ curpage[s] <= img[s].total)

\* C2: on a loaded cursor with total >= 1, go_first sets the index to 1,
\* go_last to total, go_prev to max(index-1, 1), go_next to
\* min(index+1, total) and go_page_no(n) to min(max(n, 1), total), for
\* every integer n.
C2_Clamping ==
    [][\A s \in Sides :
         (IsLoaded(s) /\ img[s].total >= 1) =>
           /\ CalledOn(s, "go_first")' => curpage'[s] = 1
           /\ CalledOn(s, "go_last")' => curpage'[s] = img[s].total
           /\ CalledOn(s, "go_prev")' =>
                curpage'[s] = (IF curpage[s] - 1 > 1 THEN curpage[s] - 1 ELSE 1)
           /\ CalledOn(s, "go_next")' =>
                curpage'[s] = (IF curpage[s] + 1 < img[s].total
                               THEN curpage[s] + 1 ELSE img[s].total)
           /\ CalledOn(s, "go_page_no")' =>
                curpage'[s] = (IF last'.p < 1 THEN 1
                               ELSE IF last'.p > img[s].total THEN img[s].total
                               ELSE last'.p)
           /\ \A n \in TestInts :
                WithinPageRange(n, img[s].total) =
                  (IF n < 1 THEN 1 ELSE IF n > img[s].total THEN img[s].total ELSE n)
      ]_vars

\* C2 happens: go_page_no with a number above the total was called on a cursor
\* of MaxTotal pages and left it on its last page
C2_Witness ==
    /\ last.op = "go_page_no"
    /\ last.side = "L"
    /\ img["L"].total = MaxTotal
    /\ last.p > MaxTotal
    /\ curpage["L"] = MaxTotal
    /\ ~crashed

\* C3: with both sides loaded and both at page 1, after k synchronized
\* go_next calls the left index is min(1+k, totalLeft) and the right index
\* is min(1+k, totalRight).
C3_SyncDrift ==
    run >= 1 =>
      /\ curpage["L"] = (IF 1 + run < img["L"].total THEN 1 + run ELSE img["L"].total)
      /\ curpage["R"] = (IF 1 + run < img["R"].total THEN 1 + run ELSE img["R"].total)

\* C3 happens: totals MaxTotal and MaxTotal-2, three synchronized go_next calls
\* from page 1: the left side is on page 4, the right one stays on its last page
C3_Witness ==
    /\ run = 3
    /\ img["L"] = Image(MaxTotal)
    /\ img["R"] = Image(MaxTotal - 2)
    /\ curpage["L"] = 4
    /\ curpage["R"] = MaxTotal - 2
    /\ last.op = "sync_go_next"

\* C4: whenever the synchronized controls are enabled, both cursors have a
\* source attached.
C4_SyncOnlyWhenBothLoaded ==
    sync_enabled => (IsLoaded("L") /\ IsLoaded("R"))

\* C5: a navigation operation called on a cursor with no source attached
\* raises nothing, leaves the index (and the page-number text) as it was and
\* hands no page to the view.
C5_UnloadedNoOp ==
    [][\A s \in Sides :
         (~IsLoaded(s) /\ s \in last'.calls /\ last'.op # "load") =>
           /\ curpage'[s] = curpage[s]
           /\ page_le'[s] = page_le[s]
           /\ view_page'[s] = view_page[s]
           /\ last'.emit[s] = <<>>
           /\ ~last'.raised
           /\ ~crashed'
      ]_vars

\* C5 happens: a synchronized go_next ran while only the left side was loaded
C5_Witness ==
    /\ last.op = "sync_go_next"
    /\ "R" \in last.calls
    /\ IsLoaded("L")
    /\ ~IsLoaded("R")
    /\ curpage["R"] = 0
    /\ curpage["L"] = 2

(***************************************************************************)
(* Properties of DifferenceDetection.difference.                           *)
(***************************************************************************)

\* the call of difference() has been made
Called == out.status # "none"

\* the page as the engine compares it (three channels)
Colour1 == ConvertToColor(page_l_data).val
Colour2 == ConvertToColor(page_r_data).val

\* C6: when the two pages differ in height, width or channel count,
\* difference() returns exactly the pair it was given: no annotation, no
\* error.
C6_MismatchPassThrough ==
    (/\ Called
     /\ \/ Rows(page_l_data) # Rows(page_r_data)
        \/ Cols(page_l_data) # Cols(page_r_data)
        \/ CvChannels(page_l_data) # CvChannels(page_r_data))
    => /\ out.status = "passthrough"
       /\ out.dst1 = page_l_data
       /\ out.dst2 = page_r_data

\* C6, its case: two pages of the same height and width that differ only in
\* their channel count have been compared
C6_Witness ==
    /\ Called
    /\ Rows(page_l_data) = Rows(page_r_data)
    /\ Cols(page_l_data) = Cols(page_r_data)
    /\ CvChannels(page_l_data) # CvChannels(page_r_data)
    /\ out.status = "passthrough"
    /\ out.dst1 = page_l_data

\* C7: for every page P and every configuration, difference(P, P) has an
\* empty change mask, extracts no region on either side and returns two
\* images pixel-equal to P (a single-channel P compares equal to its
\* three-channel promotion).
C7_SelfDiffIdentity ==
    (Called /\ page_l_data = page_r_data)
    => /\ out.status = "annotated"
       /\ \A p \in Coords(out.mask) : out.mask.px[p] = <<0>>
       /\ out.regions1 = {} /\ out.regions2 = {}
       /\ \A k \in 1..Len(out.rounds1) : out.rounds1[k].found = {}
       /\ \A k \in 1..Len(out.rounds2) : out.rounds2[k].found = {}
       /\ \A dst \in {out.dst1, out.dst2} :
             /\ Rows(dst) = Rows(page_l_data)
             /\ Cols(dst) = Cols(page_l_data)
             /\ \A p \in Coords(page_l_data) :
                   LET v == page_l_data.px[p]
                   IN  \/ dst.px[p] = v
                       \/ Len(v) = 1 /\ dst.px[p] = <<v[1], v[1], v[1]>>

\* C8: in the change mask a pixel is foreground (255) exactly when the
\* absolute difference of the two pages' 8-bit intensities there is >= 1,
\* and background (0) otherwise; a difference of exactly 1 is foreground.
C8_MaskFromOne ==
    out.status = "annotated"
    => \A p \in Coords(out.mask) :
          LET d == Abs(GrayOf(Colour1.px[p]) - GrayOf(Colour2.px[p]))
          IN  out.mask.px[p] = IF d >= 1 THEN <<255>> ELSE <<0>>

\* C9: a mask component whose contour area is below the minimum area 10 is
\* never annotated: no round draws a contour of a smaller area, every
\* region reported encloses a mask component of area 10 or more, and two
\* pages that differ in a single isolated pixel come back with no region
\* and no mark on either side.
C9_SmallAreaNeverAnnotated ==
    out.status = "annotated"
    => /\ \A rounds \in {out.rounds1, out.rounds2} :
             \A k \in 1..Len(rounds) :
                \A c \in rounds[k].drawn : c.area2 >= 2 * 10
       /\ \A side \in {[rounds |-> out.rounds1, regions |-> out.regions1],
                       [rounds |-> out.rounds2, regions |-> out.regions2]} :
             \A r \in side.regions :
                \E c \in side.rounds[1].found :
                   /\ c.area2 >= 2 * 10
                   /\ r.x <= c.box.x /\ c.box.x + c.box.w <= r.x + r.w
                   /\ r.y <= c.box.y /\ c.box.y + c.box.h <= r.y + r.h
       /\ Cardinality({p \in Coords(out.mask) : out.mask.px[p] = <<255>>}) = 1
          => /\ out.regions1 = {} /\ out.regions2 = {}
             /\ out.dst1 = Colour1 /\ out.dst2 = Colour2

\* C9, its case: the mask held a component of a contour area below 10 (of
\* more than one pixel) beside one that was annotated
C9_Witness ==
    /\ out.status = "annotated"
    /\ \E c \in out.rounds2[1].found :
          /\ c.area2 < 2 * 10 /\ c.box.w > 1 /\ c.box.h > 1
          /\ c \notin out.rounds2[1].drawn
    /\ Cardinality(out.regions2) = 1

\* C10: with ignore_bg_rect enabled, a component (of sufficient area) is
\* discarded on a side exactly when every pixel of the interior of its
\* bounding box, shrunk by the margin where the box is larger than twice
\* the margin, equals bg_color in that side's own image; with
\* ignore_bg_rect disabled no component is discarded for its colour.
C10_BackgroundSuppression ==
    out.status = "annotated"
    => \A side \in {[image |-> Colour1, rounds |-> out.rounds1],
                    [image |-> Colour2, rounds |-> out.rounds2]} :
          \A k \in 1..Len(side.rounds) :
             \A c \in side.rounds[k].found :
                LET b  == c.box
                    mx == IF b.w > 2 * BgDelMargin THEN BgDelMargin ELSE 0
                    my == IF b.h > 2 * BgDelMargin THEN BgDelMargin ELSE 0
                    interior == {p \in Coords(side.image) :
                                   /\ b.x + mx <= p[2] /\ p[2] < b.x + b.w - mx
                                   /\ b.y + my <= p[1] /\ p[1] < b.y + b.h - my}
                IN  c.area2 >= 2 * MinCntArea
                    => (c \notin side.rounds[k].drawn
                        <=> /\ detection_settings.ignore_bg_rect
                            /\ \A p \in interior :
                                  side.image.px[p] = detection_settings.bg_color)

\* C10, its case: with ignore_bg_rect enabled, a component wider than twice
\* the margin was discarded on the right, where only the shrunk interior of
\* its box is of the background colour, and kept on the left
C10_Witness ==
    /\ out.status = "annotated"
    /\ detection_settings.ignore_bg_rect
    /\ \E c \in out.rounds2[1].found :
          /\ c.area2 >= 2 * MinCntArea
          /\ c.box.w > 2 * BgDelMargin
          /\ c \notin out.rounds2[1].drawn
          /\ c \in out.rounds1[1].drawn
          /\ \E p \in Coords(Colour2) :
                /\ c.box.x <= p[2] /\ p[2] < c.box.x + c.box.w
                /\ c.box.y <= p[1] /\ p[1] < c.box.y + c.box.h
                /\ Colour2.px[p] # detection_settings.bg_color

\* the two sides of a finished call: the page as compared, the record of
\* its merge rounds and the boxes reported for it
ResultSides ==
    {[image |-> Colour1, rounds |-> out.rounds1, regions |-> out.regions1],
     [image |-> Colour2, rounds |-> out.rounds2, regions |-> out.regions2]}

\* the rectangle a merge round fills for a box it keeps: one pixel beyond
\* the box on the left and top, two on the right and bottom (cv2.rectangle
\* includes both corners), as far as the page reaches
Redraw(box, page) ==
    [x1 |-> Max(box.x - 1, 0), y1 |-> Max(box.y - 1, 0),
     x2 |-> Min(box.x + box.w + 1, Cols(page) - 1),
     y2 |-> Min(box.y + box.h + 1, Rows(page) - 1)]

\* two filled rectangles overlap or touch (also by a corner)
Touch(a, b) ==
    /\ a.x1 <= b.x2 + 1 /\ b.x1 <= a.x2 + 1
    /\ a.y1 <= b.y2 + 1 /\ b.y1 <= a.y2 + 1

\* the rectangles joined to those of a group by a chain of touching ones
RECURSIVE Joined(_, _)
Joined(group, rects) ==
    LET more == {r \in rects \ group : \E g \in group : Touch(g, r)}
    IN  IF more = {} THEN group ELSE Joined(group \cup more, rects)

Groups(rects) == {Joined({r}, rects) : r \in rects}

\* the bounding box x, y, w, h of a group of rectangles
BoxOfGroup(group) ==
    LET x1 == SetMin({r.x1 : r \in group})
        y1 == SetMin({r.y1 : r \in group})
    IN  [x |-> x1, y |-> y1,
         w |-> SetMax({r.x2 : r \in group}) - x1 + 1,
         h |-> SetMax({r.y2 : r \in group}) - y1 + 1]

\* the points <<x, y>> that a set of rectangles covers
Covered(rects) ==
    UNION {(r.x1..r.x2) \X (r.y1..r.y2) : r \in rects}

\* the group is not shut into a hole that the other rectangles leave
NotEnclosed(group, rects, page) ==
    \E p \in Covered(group) :
       Nbrs4(p) \cap OuterBackground(Covered(rects), Rows(page), Cols(page)) # {}

\* what comes out of merge round k of a side: the boxes of the contours
\* found next, which after the last round are the regions reported
BoxesAfter(side, k) ==
    IF k < Len(side.rounds) THEN {c.box : c \in side.rounds[k + 1].found}
    ELSE side.regions

\* C11 as stated: there are 2 merge rounds, and the boxes kept in a round
\* whose filled redraws touch or overlap, directly or through a chain of
\* others, come out of the round as one region, while boxes whose redraws
\* do not touch come out as separate regions: the regions after a round are
\* the bounding boxes of the groups of touching redraws, one for each group.
C11_MergeTouching ==
    out.status = "annotated"
    => \A side \in ResultSides :
          /\ Len(side.rounds) = 2
          /\ \A k \in 1..Len(side.rounds) :
                LET rects == {Redraw(c.box, side.image) :
                                c \in side.rounds[k].drawn}
                IN  BoxesAfter(side, k) = {BoxOfGroup(g) : g \in Groups(rects)}

\* C11 amended: as stated, for the groups that are not enclosed in a hole
\* of the other redraws; a group inside such a hole is not reported at all
\* (only external contours are extracted).
C11_MergeTouchingExternal ==
    out.status = "annotated"
    => \A side \in ResultSides :
          /\ Len(side.rounds) = 2
          /\ \A k \in 1..Len(side.rounds) :
                LET rects == {Redraw(c.box, side.image) :
                                c \in side.rounds[k].drawn}
                IN  BoxesAfter(side, k) =
                       {BoxOfGroup(g) :
                          g \in {e \in Groups(rects) :
                                   NotEnclosed(e, rects, side.image)}}

\* C11, its case: three boxes, none touching another after the first round,
\* the first and the last not touching in the second either, are reported
\* as one region
C11_Witness ==
    /\ out.status = "annotated"
    /\ Cardinality(out.rounds2[1].drawn) = 3
    /\ Cardinality(out.rounds2[2].drawn) = 3
    /\ \E a \in out.rounds2[2].drawn, b \in out.rounds2[2].drawn :
          ~Touch(Redraw(a.box, Colour2), Redraw(b.box, Colour2))
    /\ Cardinality(out.regions2) = 1

\* the outline the final step owes a region: its bounding box (columns x to
\* x + w - 1, rows y to y + h - 1) expanded by one pixel on all four sides
ExpandedByOne(r) ==
    [x1 |-> r.x - 1, y1 |-> r.y - 1, x2 |-> r.x + r.w, y2 |-> r.y + r.h]

\* C12: every outline rectangle drawn on an output image in the final
\* annotation step is the bounding box of a surviving merged region
\* expanded outward by exactly the extension margin of 1 pixel on all four
\* sides: each output is the page with these outlines, in the line colour
\* and width of the settings.
C12_OutlineExpandedByOne ==
    out.status = "annotated"
    => /\ out.dst1 = Paint(Colour1, {ExpandedByOne(r) : r \in out.regions1},
                           detection_settings.line_color,
                           detection_settings.line_width)
       /\ out.dst2 = Paint(Colour2, {ExpandedByOne(r) : r \in out.regions2},
                           detection_settings.line_color,
                           detection_settings.line_width)

\* the number of channels of an image that difference() returned
ChannelsOf(image) == IF Len(image.shape) = 3 THEN image.shape[3] ELSE 1

\* C13: a single-channel page passed to difference() is promoted to 3
\* channels before any comparison, for every page width and against any
\* other page, and both images returned by difference() are always
\* 3-channel.
C13_ChannelPromotion ==
    Called
    => /\ out.status # "raised"
       /\ ChannelsOf(out.dst1) = 3
       /\ ChannelsOf(out.dst2) = 3
       /\ (CvChannels(page_l_data) = 1 /\ page_l_data.shape = page_r_data.shape)
          => /\ out.status = "annotated"
             /\ \A p \in Coords(page_l_data) :
                   LET v == page_l_data.px[p][1]
                   IN  out.dst1.px[p] = <<v, v, v>>

\* C14: difference() has exactly two observable exits and never raises: for
\* every pair of pages of equal shape (whatever their channel count or
\* width) it returns annotated outputs, and for every pair of unequal shape
\* it returns the inputs unchanged.
C14_TwoExitsNeverRaises ==
    Called
    => IF page_l_data.shape = page_r_data.shape
       THEN out.status = "annotated"
       ELSE /\ out.status = "passthrough"
            /\ out.dst1 = page_l_data
            /\ out.dst2 = page_r_data

(***************************************************************************)
(* Properties of the cursors: emission, loading, progress.                 *)
(***************************************************************************)

\* the last handler called a PageTurning.go_* operation on side s
Navigated(s) == \E op \in NavOps : CalledOn(s, op)

\* C15: every navigation operation on a loaded cursor (a source of at least
\* one page attached) emits to the side's view exactly one page, the one at
\* the cursor's index after the operation, also when clamping left the
\* index unchanged; outside the cursor it changes nothing else: not the
\* source, the total, the file shown or the enabling of the controls, and
\* nothing of a side it was not called on.
C15_EmitsPageAtIndex ==
    [][\A s \in Sides :
         /\ (Navigated(s)' /\ img'[s] # NoImg /\ img'[s].total >= 1) =>
               /\ ~last'.raised
               /\ last'.emit[s] = <<[src |-> img'[s].total, no |-> curpage'[s]]>>
               /\ view_page'[s] = [src |-> img'[s].total, no |-> curpage'[s]]
               /\ 1 <= curpage'[s] /\ curpage'[s] <= img'[s].total
         /\ ((\E t \in Sides : Navigated(t)') /\ last'.op # "load") =>
               /\ img' = img /\ total_lbl' = total_lbl /\ fp_le' = fp_le
               /\ btn_enabled' = btn_enabled /\ sync_enabled' = sync_enabled
               /\ ~Navigated(s)' =>
                     /\ curpage'[s] = curpage[s]
                     /\ page_le'[s] = page_le[s]
                     /\ view_page'[s] = view_page[s]
                     /\ last'.emit[s] = <<>>
      ]_vars

\* C15, its case: go_next on a document of one page left the index at 1 and
\* emitted page 1 again
C15_Witness ==
    /\ last.op = "go_next"
    /\ last.side = "R"
    /\ img["R"].total = 1
    /\ curpage["R"] = 1
    /\ last.emit["R"] = <<[src |-> 1, no |-> 1]>>
    /\ view_page["R"] = [src |-> 1, no |-> 1]

\* C16: attaching a page source to a cursor (load) sets its total and resets
\* its index to 0, also when the cursor was already positioned on a page of
\* a previously attached source; the index stays 0 until go_first is
\* called.  Stated of load_image as _set_image_pages calls it, before its
\* go_first_page.
C16_LoadResetsIndex ==
    [][last'.op = "load" =>
         LET loaded == LoadImage(last'.side, last'.p)
         IN  /\ loaded.img.total = last'.p
             /\ img'[last'.side].total = last'.p
             /\ loaded.curpage = 0
      ]_vars

\* C17: is_loaded() of a cursor is true exactly when the total page count of
\* its source is greater than 0; a cursor to which a source of zero pages
\* was attached reports not loaded and its navigation operations stay
\* no-ops (none raises, none emits).
C17_LoadedIffPages ==
    \A s \in Sides :
       /\ IsLoaded(s) <=> (img[s] # NoImg /\ img[s].total > 0)
       /\ (img[s] # NoImg /\ img[s].total = 0 /\ Navigated(s))
          => (~last.raised /\ last.emit[s] = <<>>)

\* C18: during load_pages of every page source kind (presentation export
\* and multi-frame image), the progress callback is invoked exactly once
\* per page, in document order, with the strictly increasing 1-based values
\* 1, 2, ..., total.
C18_ProgressOneBased ==
    loader.with_cb
    => /\ Len(loader.cb) = loader.n
       /\ \A i \in 1..Len(loader.cb) : loader.cb[i] = i
       /\ loader.at = "done" => loader.cb = [i \in 1..loader.total |-> i]

\* the extents of the boxes whose shrinking is examined: every extent on
\* one axis, with the smallest one and the ones around the limit on the other
Extents == 1..(2 * BgDelMargin + 3)
EdgeExtents == {1, 2 * BgDelMargin, 2 * BgDelMargin + 1}

\* the rectangle x1..x2, y1..y2 (ends excluded) that is compared with the
\* background colour for a box is the box shrunk by 20 on the axes on which
\* it is larger than 40 and on no other, and it is not empty or inverted
ShrunkAsStated(box) ==
    LET sl == ShrunkInterior(box, BgDelMargin)
    IN  /\ sl.x1 - box.x = (IF box.w > 40 THEN 20 ELSE 0)
        /\ (box.x + box.w) - sl.x2 = (IF box.w > 40 THEN 20 ELSE 0)
        /\ sl.y1 - box.y = (IF box.h > 40 THEN 20 ELSE 0)
        /\ (box.y + box.h) - sl.y2 = (IF box.h > 40 THEN 20 ELSE 0)
        /\ sl.x1 < sl.x2
        /\ sl.y1 < sl.y2

\* C19: in background suppression a bounding box is shrunk by the margin 20
\* on an axis only if its extent on that axis is greater than 40, and for
\* every box with width >= 1 and height >= 1 the rectangle that is compared
\* with the background colour is non-empty and not inverted (x1 < x2 and
\* y1 < y2): for the boxes of every extent, and for the boxes the merge
\* rounds of a call found.
C19_ShrinkOnlyLargeBoxes ==
    /\ \A a \in Extents, b \in EdgeExtents :
          /\ ShrunkAsStated([x |-> 3, y |-> 2, w |-> a, h |-> b])
          /\ ShrunkAsStated([x |-> 3, y |-> 2, w |-> b, h |-> a])
    /\ out.status = "annotated"
       => \A side \in ResultSides :
             \A k \in 1..Len(side.rounds) :
                \A c \in side.rounds[k].found :
                   c.box.w >= 1 /\ c.box.h >= 1 /\ ShrunkAsStated(c.box)

\* C19, its case: with ignore_bg_rect enabled, a call compared a box taller
\* than 40 and one not wider than 40 with the background colour
C19_Witness ==
    /\ out.status = "annotated"
    /\ detection_settings.ignore_bg_rect
    /\ \E c \in out.rounds1[1].found :
          c.area2 >= 2 * MinCntArea /\ c.box.h > 40 /\ c.box.w <= 40

C21_FailedLoadLeavesState ==
    [][last'.op \in {"load_failed:unsupported", "load_failed:not_found"} =>
         /\ last'.raised
         /\ crashed'
         /\ img' = img
         /\ total_lbl' = total_lbl
         /\ curpage' = curpage
         /\ sync_enabled' = sync_enabled
      ]_vars

\* a load failed on a side that was positioned on a later page of its
\* source while the synchronized controls were enabled
C21_Witness ==
    /\ last.op = "load_failed:not_found"
    /\ img[last.side] # NoImg
    /\ curpage[last.side] > 1
    /\ img[Other(last.side)] # NoImg
    /\ sync_enabled

\* C22: in every reachable state in which both sides have a source
\* attached, the synchronized controls are enabled, in whatever order and
\* by whatever way (dialog or drop) the two sides were loaded.
C22_SyncEnabledWhenBothAttached ==
    (img["L"] # NoImg /\ img["R"] # NoImg) => sync_enabled

\* C23: a successful load on one side leaves that side's cursor at index 1
\* of the new source with the new total, also when it was positioned on a
\* later page before, and leaves the other side's source and index
\* unchanged.
C23_LoadPositionsAtFirstPage ==
    [][(last'.op = "load" /\ ~last'.raised) =>
         LET s == last'.side
         IN  /\ curpage'[s] = 1
             /\ img'[s] = Image(last'.p)
             /\ total_lbl'[s] = Str(last'.p)
             /\ view_page'[s] = GetPage(last'.p, 1)
             /\ img'[Other(s)] = img[Other(s)]
             /\ curpage'[Other(s)] = curpage[Other(s)]
      ]_vars

\* a side was loaded again with a document of another page count while
\* the other side stayed on a later page of its own document
C23_Witness ==
    /\ last.op = "load"
    /\ ~last.raised
    /\ curpage[last.side] = 1
    /\ img[last.side].total = 1
    /\ img[Other(last.side)].total = MaxTotal
    /\ curpage[Other(last.side)] > 1

C25_EngineSawHeldPair ==
    ~crashed =>
       /\ \A s \in Sides :
             img[s] # NoImg => view_page[s] = GetPage(img[s].total, curpage[s])
       /\ diffview.seen # "earlier"

\* C25 as amended: ... so whenever the pages at the two indices have equal
\* size, the last pair handed to the diff engine is (left page at left
\* index, right page at right index).
C25_ViewHoldsPageAtIndex ==
    ~crashed =>
       /\ \A s \in Sides :
             img[s] # NoImg => view_page[s] = GetPage(img[s].total, curpage[s])
       /\ (/\ img["L"] # NoImg
           /\ img["R"] # NoImg
           /\ PageSize(view_page["L"]) = PageSize(view_page["R"]))
          => /\ diffview.seen = "held"
             /\ Len(diffview.handed) > 0
             /\ diffview.handed[Len(diffview.handed)] =
                   [l |-> GetPage(img["L"].total, curpage["L"]),
                    r |-> GetPage(img["R"].total, curpage["R"])]

\* a synchronized step moved both sides to later pages of equal size, the
\* engine having been handed the pair in between as well
C25_Witness ==
    /\ ~crashed
    /\ last.op = "sync_go_next"
    /\ curpage["L"] > 1
    /\ curpage["R"] > 1
    /\ img["L"].total # img["R"].total
    /\ diffview.seen = "held"
    /\ Len(diffview.handed) = 2

\* C26: a synchronized navigation operation triggered while exactly one
\* side is loaded (the key handler does not consult the enabled state)
\* moves the loaded side exactly as its independent operation would, leaves
\* the unloaded side at index 0 with no page emitted, and raises nothing.
C26_SyncWithOneSideLoaded ==
    [][\A op \in NavOps \ {"go_page_no"}, s \in Sides :
          (/\ last'.op = "sync_" \o op
           /\ img[s] # NoImg
           /\ img[Other(s)] = NoImg)
          => LET r == Nav(op, s, 0)
                 o == Other(s)
             IN  /\ curpage'[s] = r.cur
                 /\ page_le'[s] = r.le
                 /\ last'.emit[s] = r.emit
                 /\ Len(r.emit) = 1
                 /\ view_page'[s] = r.emit[1]
                 /\ curpage[o] = 0
                 /\ curpage'[o] = 0
                 /\ last'.emit[o] = <<>>
                 /\ view_page'[o] = NoPage
                 /\ ~last'.raised
                 /\ ~crashed'
      ]_vars

\* PageDown moved the only loaded side to a later page
C26_Witness ==
    /\ last.op = "sync_go_next"
    /\ \E s \in Sides :
          /\ img[s] # NoImg
          /\ img[Other(s)] = NoImg
          /\ curpage[s] > 1
          /\ curpage[Other(s)] = 0
          /\ last.emit[s] = <<GetPage(img[s].total, curpage[s])>>
    /\ ~crashed

\* C27: after every navigation operation on a loaded side, go_page_no with
\* a clamped number (0 or a number above total) included, the text of that
\* side's page-number field equals the cursor's index.
C27_PageFieldShowsIndex ==
    [][\A s \in Sides :
          (/\ last'.op \in NavOps
           /\ last'.side = s
           /\ img[s] # NoImg
           /\ ~last'.raised)
          => page_le'[s] = Str(curpage'[s])
      ]_vars

\* C28: for a presentation source, every access load_pages makes to the
\* presentation handle stored by open() (iterating its slides, exporting
\* them, closing it) happens while the PowerPoint application session that
\* produced the handle is still running; the application is quit only after
\* the last such access.
C28_HandleUsedWhileAppRuns ==
    KindOf(loader.suff) = "ppt" => loader.touched \subseteq {"running"}

\* C29: SettingsDialogController.window is non-None exactly while a
\* settings window is shown: at most one window exists at a time, run()
\* does nothing while one is shown, and whenever none is shown (never
\* opened, closed, or a previous run() failed during construction) run()
\* opens one (unless the construction fails in that very call).
C29_WindowRefIffShown ==
    [][/\ settings_dialog'.shown <= 1
       /\ (settings_dialog'.window # "None") <=> (settings_dialog'.shown = 1)
       /\ (settings_dialog'.runs # settings_dialog.runs) =>
             IF settings_dialog.shown = 1
             THEN /\ settings_dialog'.window = settings_dialog.window
                  /\ settings_dialog'.shown = 1
                  /\ settings_file' = settings_file
             ELSE settings_dialog'.raised \/ settings_dialog'.shown = 1
      ]_vars

\* C30: Settings.initialize never raises because of the content of an
\* existing settings file: when the file is missing or cannot be read into
\* a Settings record (invalid JSON, missing or unknown fields) it returns
\* the defaults and the file afterwards holds exactly those defaults; when
\* the file reads successfully it returns the file's settings and does not
\* write.
C30_InitializeNeverRaises ==
    [][(~settings_obj.held /\ ~settings_obj.raised /\ settings_obj' # settings_obj) =>
         LET readable == /\ settings_file.exists
                         /\ settings_file.json = "object"
                         /\ settings_file.keys = FieldNames
         IN  /\ ~settings_obj'.raised
             /\ settings_obj'.held
             /\ readable =>
                   /\ settings_obj'.val = settings_file.val
                   /\ settings_file' = settings_file
             /\ ~readable =>
                   /\ settings_obj'.val = DefaultSettings
                   /\ settings_obj'.tuples
                   /\ settings_file'.exists
                   /\ settings_file'.json = "object"
                   /\ settings_file'.keys = FieldNames
                   /\ settings_file'.val = DefaultSettings
      ]_vars

\* start-up could not read the file, returned the defaults (their colours
\* are tuples, not the lists a file gives) and wrote them
C30_Witness ==
    /\ settings_obj.held
    /\ settings_obj = GetDefaultSettings
    /\ settings_file = Write(GetDefaultSettings)
    /\ settings_dialog.runs = 0

====
